---------------------------- MODULE Spec2Model ----------------------------
(***************************************************************************)
(* A model of streamlit_app.py: the cached CSV loader load_data (column    *)
(* validation, Group defaulting, R/G/B coercion, group ordering and        *)
(* grouping) and the script body that consumes its result on every rerun.  *)
(*                                                                         *)
(* Text is modelled as a tuple of one-character strings, so that strip,    *)
(* replace, isdigit, float and the lexicographic order of Python strings   *)
(* are computed and not assumed.                                           *)
(***************************************************************************)
EXTENDS Integers, Sequences, FiniteSets, TLC

(***************************************************************************)
(* Bounds of the model.                                                    *)
(***************************************************************************)
\* the largest number of data rows of a CSV drawn at start-up
MaxRows == 3

(***************************************************************************)
(* Python text.                                                            *)
(***************************************************************************)
\* the characters of the model in code-point order (the order of str.__lt__)
CharOrder ==
    << " ", "#", "-", ".", "/",
       "0", "1", "2", "3", "4", "5", "6", "7", "8", "9",
       "a", "b", "c", "n" >>

Ord(c) == CHOOSE i \in DOMAIN CharOrder : CharOrder[i] = c

Digits == {"0", "1", "2", "3", "4", "5", "6", "7", "8", "9"}

DigitVal(c) == Ord(c) - Ord("0")

DigitChar(d) == CharOrder[Ord("0") + d]

\* str.strip(): leading and trailing blanks removed
RECURSIVE lstrip(_)
lstrip(s) == IF Len(s) > 0 /\ Head(s) = " " THEN lstrip(Tail(s)) ELSE s

RECURSIVE rstrip(_)
rstrip(s) ==
    IF Len(s) > 0 /\ s[Len(s)] = " " THEN rstrip(SubSeq(s, 1, Len(s) - 1)) ELSE s

strip(s) == rstrip(lstrip(s))

\* s.replace('.', '', 1): the first '.' removed, if there is one
replace_dot(s) ==
    LET dots == {i \in DOMAIN s : s[i] = "."}
    IN  IF dots = {} THEN s
        ELSE LET k == CHOOSE i \in dots : \A j \in dots : i <= j
             IN  SubSeq(s, 1, k - 1) \o SubSeq(s, k + 1, Len(s))

\* str.isdigit(): non-empty and all characters digits
isdigit(s) == Len(s) > 0 /\ \A i \in DOMAIN s : s[i] \in Digits

\* the value of a digit string, most significant digit first
RECURSIVE DigitsValue(_)
DigitsValue(s) ==
    IF Len(s) = 0 THEN 0
    ELSE 10 * DigitsValue(SubSeq(s, 1, Len(s) - 1)) + DigitVal(s[Len(s)])

RECURSIVE Pow10(_)
Pow10(n) == IF n = 0 THEN 1 ELSE 10 * Pow10(n - 1)

\* float(s) for a string of digits with at most one '.', as the exact
\* fraction num/den with den a power of ten
float(s) ==
    LET dots == {i \in DOMAIN s : s[i] = "."}
        frac == IF dots = {} THEN 0 ELSE Len(s) - (CHOOSE i \in dots : TRUE)
    IN  [num |-> DigitsValue(replace_dot(s)), den |-> Pow10(frac)]

\* a < b and a = b on fractions with positive denominators
NumLess(a, b) == a.num * b.den < b.num * a.den
NumEq(a, b) == a.num * b.den = b.num * a.den

\* Python's s < t on strings: code-point lexicographic order
RECURSIVE StrLess(_, _)
StrLess(s, t) ==
    IF Len(t) = 0 THEN FALSE
    ELSE IF Len(s) = 0 THEN TRUE
    ELSE IF Head(s) # Head(t) THEN Ord(Head(s)) < Ord(Head(t))
    ELSE StrLess(Tail(s), Tail(t))

\* the decimal digits of a natural number
RECURSIVE DigitsOf(_)
DigitsOf(n) ==
    IF n < 10 THEN << DigitChar(n) >>
    ELSE DigitsOf(n \div 10) \o << DigitChar(n % 10) >>

\* the digits of f as a fraction f/den, den a power of ten, zero padded
RECURSIVE FracDigits(_, _)
FracDigits(f, den) ==
    IF den = 1 THEN << >>
    ELSE << DigitChar(f \div (den \div 10)) >> \o FracDigits(f % (den \div 10), den \div 10)

RECURSIVE StripZeros(_)
StripZeros(s) ==
    IF Len(s) > 0 /\ s[Len(s)] = "0" THEN StripZeros(SubSeq(s, 1, Len(s) - 1)) ELSE s

Sign(neg) == IF neg THEN << "-" >> ELSE << >>

\* str(x) of a numpy int64
StrInt(v) == Sign(v.neg /\ v.num # 0) \o DigitsOf(v.num \div v.den)

\* str(x) of a float64 (shortest repr, fixed notation)
StrFloat(v) ==
    LET fr == StripZeros(FracDigits(v.num % v.den, v.den))
    IN  Sign(v.neg) \o DigitsOf(v.num \div v.den) \o << "." >>
          \o (IF Len(fr) = 0 THEN << "0" >> ELSE fr)


(***************************************************************************)
(* The CSV file and pandas' reading of it (line 27).                       *)
(*                                                                         *)
(* A file is Absent or a header (a set of column names) with nrows data    *)
(* rows.  Only the cells of Group, R, G, B and Hex are modelled, as text;  *)
(* an empty cell is the empty text.  The Marking of row i is the number i  *)
(* and the L*, a*, b* coordinates are left out: a chart point is a row     *)
(* index.                                                                  *)
(***************************************************************************)
Absent == [kind |-> "absent"]

\* a missing value in a column: no text (its one element is no character)
NaN == << "NaN" >>

required_coords == << "L_star", "A_star", "B_star" >>
required_colors == << "R", "G", "B" >>
required_info == << "ID (company, number)", "Marking", "Group" >>

Range(s) == {s[i] : i \in DOMAIN s}

\* the columns whose cells the model carries
CellColumns == {"Group", "R", "G", "B", "Hex"}

\* pandas' lexing of a numeric cell: blanks around, an optional '-', digits
\* with at most one '.'
ParseNumber(cell) ==
    LET s == strip(cell)
        neg == Len(s) > 0 /\ Head(s) = "-"
        body == IF neg THEN Tail(s) ELSE s
        ok == isdigit(replace_dot(body))
    IN  IF ok
        THEN [ok |-> TRUE, neg |-> neg, int |-> \A i \in DOMAIN body : body[i] # ".",
              num |-> float(body).num, den |-> float(body).den]
        ELSE [ok |-> FALSE, neg |-> FALSE, int |-> FALSE, num |-> 0, den |-> 1]

\* pd.read_csv's dtype inference on one column.  Every value is carried as
\* the text str() gives for it (one-to-one on the values of one column):
\* an all-integer column without gaps is int64, a numeric column otherwise
\* float64, any other column keeps the cell text; an empty cell is NaN.
InferColumn(cells) ==
    LET present == {i \in DOMAIN cells : Len(cells[i]) > 0}
        allnum == \A i \in present : ParseNumber(cells[i]).ok
        allint == /\ allnum
                  /\ present = DOMAIN cells
                  /\ \A i \in present : ParseNumber(cells[i]).int
    IN  [i \in DOMAIN cells |->
            IF i \notin present THEN NaN
            ELSE IF ~allnum THEN cells[i]
            ELSE IF allint THEN StrInt(ParseNumber(cells[i]))
            ELSE StrFloat(ParseNumber(cells[i]))]

(***************************************************************************)
(* load_data, lines 25-58.                                                 *)
(***************************************************************************)
None == [py |-> "None"]
PyList(s) == [py |-> "list", items |-> s]

NotFoundError == [error |-> "not found", col |-> "color_data.csv"]
MissingColumnError(c) == [error |-> "missing column", col |-> c]

\* line 36: the order in which the columns are checked
RequiredOrder == required_coords \o required_colors \o required_info

\* a loop that keeps going after a miss reports the last absent column
FirstMissingKeepsGoing(columns) ==
    LET idx == {i \in DOMAIN RequiredOrder : RequiredOrder[i] \notin columns}
    IN  IF idx = {} THEN {}
        ELSE {RequiredOrder[CHOOSE i \in idx : \A j \in idx : i >= j]}

\* lines 36-39: the first required column the header lacks, as a set
FirstMissing(columns) ==
    LET idx == {i \in DOMAIN RequiredOrder : RequiredOrder[i] \notin columns}
    IN  IF idx = {} THEN {}
        ELSE {RequiredOrder[CHOOSE i \in idx : \A j \in idx : i <= j]}

\* the gap left as the text of NaN instead of the sentinel
fillna_group_as_nan(col) ==
    [i \in DOMAIN col |-> IF col[i] = NaN THEN << "n", "a", "n" >> ELSE col[i]]

\* line 41: df['Group'].fillna('n/a')
fillna_group(col) ==
    [i \in DOMAIN col |-> IF col[i] = NaN THEN << "n", "/", "a" >> ELSE col[i]]

\* line 44: pd.to_numeric(cell, errors='coerce'), a signed fraction or nan
to_numeric(cell) ==
    LET p == ParseNumber(cell)
    IN  IF p.ok
        THEN [nan |-> FALSE, num |-> IF p.neg THEN -p.num ELSE p.num, den |-> p.den]
        ELSE [nan |-> TRUE, num |-> 0, den |-> 1]

\* line 44: .fillna(0)
fillna_zero(x) == IF x.nan THEN [nan |-> FALSE, num |-> 0, den |-> 1] ELSE x

\* a clip that forgets the upper limit
clip_lower_only(x, lo, hi) ==
    IF x.num < lo * x.den THEN [nan |-> FALSE, num |-> lo, den |-> 1] ELSE x

\* line 45: np.clip(s, 0, 255)
clip(x, lo, hi) ==
    IF x.num < lo * x.den THEN [nan |-> FALSE, num |-> lo, den |-> 1]
    ELSE IF x.num > hi * x.den THEN [nan |-> FALSE, num |-> hi, den |-> 1]
    ELSE x

\* line 45: .astype(int), truncation towards zero
astype_int(x) ==
    IF x.num >= 0 THEN x.num \div x.den ELSE -((-x.num) \div x.den)

\* lines 43-45 on one cell
ColorValue(cell) == astype_int(clip(fillna_zero(to_numeric(cell)), 0, 255))

\* line 49: s.replace('.', '', 1).isdigit() on the stripped label
IsNumericLabel(x) == isdigit(replace_dot(strip(x)))

\* lines 47-49: the key (not numeric, float(s) or s) of a label
sort_key(x) ==
    LET s == strip(x)
    IN  IF IsNumericLabel(x)
        THEN [text |-> FALSE, num |-> float(s), str |-> << >>]
        ELSE [text |-> TRUE, num |-> [num |-> 0, den |-> 1], str |-> s]

\* Python's tuple order on two keys: False before True, then the second
\* components, floats by value and strings lexicographically
KeyLess(a, b) ==
    IF a.text # b.text THEN ~a.text
    ELSE IF a.text THEN StrLess(a.str, b.str)
    ELSE NumLess(a.num, b.num)

\* Series.unique(): the distinct values in order of first appearance
RECURSIVE unique(_)
unique(s) ==
    IF Len(s) = 0 THEN << >>
    ELSE LET init == unique(SubSeq(s, 1, Len(s) - 1))
             x == s[Len(s)]
         IN  IF x \in Range(init) THEN init ELSE Append(init, x)

\* one step of a stable sort: x goes after every element not greater
Insert(sortedSeq, x) ==
    LET after == {i \in DOMAIN sortedSeq : KeyLess(sort_key(x), sort_key(sortedSeq[i]))}
        k == IF after = {} THEN Len(sortedSeq) + 1
             ELSE CHOOSE i \in after : \A j \in after : i <= j
    IN  SubSeq(sortedSeq, 1, k - 1) \o << x >> \o SubSeq(sortedSeq, k, Len(sortedSeq))

\* line 51: sorted(labels, key=sort_key), a stable sort
RECURSIVE sorted(_)
sorted(s) ==
    IF Len(s) = 0 THEN << >>
    ELSE Insert(sorted(SubSeq(s, 1, Len(s) - 1)), s[Len(s)])

\* the indices i, i+1, ... of col whose stripped text equals the stripped name
RECURSIVE SelectIndices(_, _, _)
SelectIndices(col, name, i) ==
    IF i > Len(col) THEN << >>
    ELSE (IF strip(col[i]) = strip(name) THEN << i >> ELSE << >>)
           \o SelectIndices(col, name, i + 1)

\* line 55: the rows whose stripped Group text equals the stripped name
group_rows(col, name) == SelectIndices(col, name, 1)

\* the frame after lines 41-45: per row its index (the Marking), its Group
\* label and its R, G, B integers
Frame(f) ==
    LET grp == fillna_group(InferColumn(f.data["Group"]))
    IN  [i \in 1..f.nrows |->
            [index |-> i, Group |-> grp[i],
             R |-> ColorValue(f.data["R"][i]),
             G |-> ColorValue(f.data["G"][i]),
             B |-> ColorValue(f.data["B"][i])]]

\* lines 53-56: one {"groupName", "data"} entry per name, in order
group_by(frame, names) ==
    LET col == [i \in DOMAIN frame |-> frame[i].Group]
    IN  [k \in DOMAIN names |->
            LET rows == group_rows(col, names[k])
            IN  [groupName |-> names[k],
                 data |-> [j \in DOMAIN rows |-> frame[rows[j]]]]]

\* line 51: the distinct labels of the frame, sorted
sorted_names(frame) == sorted(unique([i \in DOMAIN frame |-> frame[i].Group]))

\* lines 41-58: the value returned for a frame with every required column
Dataset(frame) ==
    [groups |-> PyList(group_by(frame, sorted_names(frame))),
     group_names |-> PyList(sorted_names(frame)),
     errors |-> << >>]

\* lines 25-58: the value returned and the st.error messages emitted
load_data(f) ==
    IF f = Absent
    THEN [groups |-> None, group_names |-> None, errors |-> << NotFoundError >>]
    ELSE IF FirstMissing(f.columns) # {}
    THEN [groups |-> None, group_names |-> None,
          errors |-> << MissingColumnError(CHOOSE c \in FirstMissing(f.columns) : TRUE) >>]
    ELSE Dataset(Frame(f))

(***************************************************************************)
(* The script body, lines 60-279.                                          *)
(***************************************************************************)
\* `if groups:` (lines 86, 142, 173, 204, 237): None and [] are falsy
Truthy(v) == v.py = "list" /\ Len(v.items) > 0

\* lines 94, 148, 179, 210, 247: f"rgb({row['R']}, {row['G']}, {row['B']})"
marker_color(row) == [fmt |-> "rgb", R |-> row.R, G |-> row.G, B |-> row.B]

marker_colors(data) == [j \in DOMAIN data |-> marker_color(data[j])]

points(data) == [j \in DOMAIN data |-> data[j].index]

\* lines 88-92: "palette " and the integer part of a numeric name, else the name
legend_label(name) ==
    LET group_name == strip(name)
    IN  IF isdigit(replace_dot(group_name))
        THEN DigitsOf(float(group_name).num \div float(group_name).den)
        ELSE group_name

\* lines 66-83: the three axis lines of the 3D figure
axis_lines ==
    << [mode |-> "lines", name |-> << "L" >>, points |-> << >>, colors |-> << >>],
       [mode |-> "lines", name |-> << "A" >>, points |-> << >>, colors |-> << >>],
       [mode |-> "lines", name |-> << "B" >>, points |-> << >>, colors |-> << >>] >>

\* lines 87-115: one marker trace per group
palette_traces(items) ==
    [k \in DOMAIN items |->
        [mode |-> "markers", name |-> legend_label(items[k].groupName),
         points |-> points(items[k].data), colors |-> marker_colors(items[k].data)]]

\* lines 145-156, 176-187, 207-218: one marker trace per group, named by
\* the stripped group name
strip_traces(items) ==
    [k \in DOMAIN items |->
        [mode |-> "markers", name |-> strip(items[k].groupName),
         points |-> points(items[k].data), colors |-> marker_colors(items[k].data)]]

\* line 241: pd.concat of the groups' rows
RECURSIVE concat(_)
concat(items) ==
    IF Len(items) = 0 THEN << >>
    ELSE concat(SubSeq(items, 1, Len(items) - 1)) \o items[Len(items)].data

\* lines 244-245: sort_values on the numeric Marking (the row index here)
RECURSIVE sort_values(_, _)
sort_values(rows, m) ==
    IF m = 0 THEN << >>
    ELSE sort_values(rows, m - 1) \o SelectSeq(rows, LAMBDA r : r.index = m)

\* lines 238-279: the single trace of the Marking-ordered chart
marking_trace(items) ==
    LET all_data == sort_values(concat(items), Len(concat(items)))
    IN  << [mode |-> "markers", name |-> << >>,
            points |-> points(all_data), colors |-> marker_colors(all_data)] >>

\* consumers that test `groups is not []` instead of its truth
guard_not_empty_list(g) == ~(g.py = "list" /\ Len(g.items) = 0)

\* the guard of every consumer of groups
guard(g) == Truthy(g)

\* lines 63-279: the charts handed to st.plotly_chart in one run, and the
\* exception that ends the run early (iterating a value that is no list)
render(g) ==
    IF guard(g) /\ g.py # "list"
    THEN [exception |-> "TypeError", charts |-> << >>]
    ELSE IF ~guard(g)
    THEN [exception |-> "none",
          charts |-> << [chart |-> "3d", traces |-> axis_lines] >>]
    ELSE [exception |-> "none",
          charts |->
            << [chart |-> "3d", traces |-> axis_lines \o palette_traces(g.items)],
               [chart |-> "L_star", traces |-> strip_traces(g.items)],
               [chart |-> "A_star", traces |-> strip_traces(g.items)],
               [chart |-> "B_star", traces |-> strip_traces(g.items)],
               [chart |-> "Marking", traces |-> marking_trace(g.items)] >>]

(***************************************************************************)
(* The files of the model.                                                 *)
(***************************************************************************)
Required == Range(RequiredOrder)

GroupCells ==
    { << >>, << "1" >>, << " ", "1" >>, << "2" >>, << "1", "0" >>,
      << "1", ".", "5" >>, << "-", "5" >>, << "a" >>, << "b", " " >> }

ColorCells ==
    << << >>, << "a", "b", "c" >>, << "-", "5" >>, << "3", "0", "0" >>,
       << "1", "2", ".", "7" >>, << "2", "5", "5" >> >>

\* the R, G, B cells of one row: three consecutive cells of ColorCells
ColorTriples ==
    { [c \in {"R", "G", "B"} |->
          ColorCells[((k + (CHOOSE d \in 0..2 : required_colors[d + 1] = c))
                        % Len(ColorCells)) + 1]] : k \in 1..Len(ColorCells) }

PlainTriple == [c \in {"R", "G", "B"} |-> << "2", "5", "5" >>]

Csv(columns, n, grp, rgb) ==
    [kind |-> "csv", columns |-> columns, nrows |-> n,
     data |-> [c \in columns \cap CellColumns |->
                 IF c = "Group" THEN grp
                 ELSE IF c = "Hex" THEN [i \in 1..n |-> << "#", "0", "a" >>]
                 ELSE [i \in 1..n |-> rgb[i][c]]]]

\* every choice of Group cells, with plain colours
GroupFiles ==
    UNION { { Csv(Required, n, grp, [i \in 1..n |-> PlainTriple]) :
                grp \in [1..n -> GroupCells] } : n \in 0..MaxRows }

\* every choice of colour triples, with one group
ColorFiles ==
    UNION { { Csv(Required, n, [i \in 1..n |-> << "a" >>], rgb) :
                rgb \in [1..n -> ColorTriples] } : n \in 1..MaxRows }

\* every header: any required columns left out, with or without Hex
HeaderFiles ==
    { Csv((Required \ dropped) \cup extra, 1, << << "a" >> >>, << PlainTriple >>) :
        dropped \in SUBSET Required, extra \in {{}, {"Hex"}} }

Files == GroupFiles \cup ColorFiles \cup HeaderFiles

\* what a later edit of the file leaves behind
Edits ==
    { Csv(Required, 2, << << "2" >>, << "a" >> >>, << PlainTriple, PlainTriple >>),
      Csv(Required \ {"Marking"}, 1, << << "a" >> >>, << PlainTriple >>) }

(***************************************************************************)
(* The state machine.                                                      *)
(***************************************************************************)
VARIABLES
    file,         \* color_data.csv on disk
    cache,        \* the entry of st.cache_data for load_data
    df,           \* what pd.read_csv met when load_data's body last ran
    groups,       \* the script's groups
    group_names,  \* the script's group_names
    errors,       \* the st.error messages on the page
    charts,       \* the charts on the page
    exception,    \* the exception that ended the last run, or "none"
    run_source    \* history: the file as it was on disk at the last run

vars ==
    << file, cache, df, groups, group_names, errors, charts, exception, run_source >>

NoEntry == [full |-> FALSE]
Unread == [kind |-> "unread"]
Unbound == [py |-> "unbound"]

Init ==
    /\ file \in Files \cup {Absent}
    /\ cache = NoEntry
    /\ df = Unread
    /\ groups = Unbound
    /\ group_names = Unbound
    /\ errors = << >>
    /\ charts = << >>
    /\ exception = "none"
    /\ run_source = Unread

\* line 24: st.cache_data returns the stored value (and replays its
\* messages) when it has one; load_data takes no argument, so there is one
\* entry, and nothing in the script clears it
cached(entry, f) == IF entry.full THEN entry.value ELSE load_data(f)

\* one run of the script, top to bottom
RunScript ==
    LET ret == cached(cache, file)
        out == render(ret.groups)
    IN  /\ cache' = [full |-> TRUE, value |-> ret]
        /\ df' = IF cache.full THEN df ELSE file
        /\ groups' = ret.groups
        /\ group_names' = ret.group_names
        /\ errors' = ret.errors
        /\ charts' = out.charts
        /\ exception' = out.exception
        /\ run_source' = file
        /\ UNCHANGED file

\* the file is rewritten between runs
ReplaceFile ==
    /\ \E f \in Edits : f # file /\ file' = f
    /\ UNCHANGED << cache, df, groups, group_names, errors, charts, exception, run_source >>

\* the file is deleted between runs
RemoveFile ==
    /\ file # Absent
    /\ file' = Absent
    /\ UNCHANGED << cache, df, groups, group_names, errors, charts, exception, run_source >>

Next == RunScript \/ ReplaceFile \/ RemoveFile

Spec == Init /\ [][Next]_vars

(***************************************************************************)
(* Properties.                                                             *)
(***************************************************************************)
\* the body of load_data has run on a CSV that has every required column
Loaded == df.kind = "csv" /\ Required \subseteq df.columns

IsNone(v) == v.py = "None"

\* the places <<k, j>> of row i in the groups' data
PlacesOf(i) ==
    {kj \in UNION {{<< k, j >> : j \in DOMAIN groups.items[k].data} :
                      k \in DOMAIN groups.items} :
        groups.items[kj[1]].data[kj[2]].index = i}

\* C1: after a load that passed column validation, every input row is in
\* the data of exactly one returned group.
C1_GroupsPartitionRows ==
    Loaded => \A i \in 1..df.nrows : Cardinality(PlacesOf(i)) = 1

\* a label read as a number the way the claim reads it: an optional sign,
\* digits, at most one decimal point, blanks around
LabelIsNumber(x) == ParseNumber(x).ok
LabelValue(x) ==
    [num |-> IF ParseNumber(x).neg THEN -ParseNumber(x).num ELSE ParseNumber(x).num,
     den |-> ParseNumber(x).den]

\* the two labels have the same place in the claimed order
SameRank(x, y) ==
    IF LabelIsNumber(x) /\ LabelIsNumber(y) THEN NumEq(LabelValue(x), LabelValue(y))
    ELSE ~LabelIsNumber(x) /\ ~LabelIsNumber(y) /\ strip(x) = strip(y)

\* x may stand before y in the claimed order
RankedBefore(x, y) ==
    IF LabelIsNumber(x) /\ LabelIsNumber(y)
    THEN ~NumLess(LabelValue(y), LabelValue(x))
    ELSE IF LabelIsNumber(x) # LabelIsNumber(y) THEN LabelIsNumber(x)
    ELSE ~StrLess(strip(y), strip(x))

\* the first row of the frame that carries the label
FirstRow(x) ==
    LET frame == Frame(df)
    IN  CHOOSE i \in DOMAIN frame :
            frame[i].Group = x /\ \A j \in DOMAIN frame : frame[j].Group = x => i <= j

\* C2: group_names has every label that reads as a number (signed ones
\* included) before every other label, the numbers ascending by value, the
\* others in lexicographic order, and equal ranks in first-appearance order.
C2_GroupNamesOrdered ==
    Loaded =>
        \A i, j \in DOMAIN group_names.items :
            i < j =>
                /\ RankedBefore(group_names.items[i], group_names.items[j])
                /\ SameRank(group_names.items[i], group_names.items[j])
                     => FirstRow(group_names.items[i]) < FirstRow(group_names.items[j])

\* the order in which the claim has the columns checked
CheckingOrder ==
    << "L_star", "A_star", "B_star", "R", "G", "B",
       "ID (company, number)", "Marking", "Group" >>

\* C3: a CSV whose header lacks a required column yields exactly one error,
\* naming the first absent column in the checking order, and an empty result.
C3_MissingColumnReported ==
    (df.kind = "csv" /\ \E c \in Range(CheckingOrder) : c \notin df.columns) =>
        /\ IsNone(groups) /\ IsNone(group_names)
        /\ Len(errors) = 1
        /\ errors[1].error = "missing column"
        /\ \E k \in DOMAIN CheckingOrder :
              /\ errors[1].col = CheckingOrder[k]
              /\ CheckingOrder[k] \notin df.columns
              /\ \A m \in 1..(k - 1) : CheckingOrder[m] \in df.columns

C3_Witness ==
    /\ df.kind = "csv"
    /\ "Marking" \notin df.columns
    /\ "Group" \notin df.columns
    /\ Range(CheckingOrder) \ {"Marking", "Group"} \subseteq df.columns
    /\ errors = << MissingColumnError("Marking") >>

\* C4: when the file does not exist the load reports not-found and returns
\* (None, None), the run ends without an exception, and no consumer of the
\* result ran: only the 3D figure with its axis lines is on the page.
C4_MissingFileHandled ==
    df = Absent =>
        /\ IsNone(groups) /\ IsNone(group_names)
        /\ errors = << NotFoundError >>
        /\ exception = "none"
        /\ Len(charts) = 1
        /\ \A t \in DOMAIN charts[1].traces : charts[1].traces[t].mode = "lines"

C4_Witness ==
    /\ df = Absent
    /\ IsNone(groups)
    /\ Len(charts) = 1
    /\ exception = "none"

\* the rows of the returned groups
LoadedRows ==
    UNION {Range(groups.items[k].data) : k \in DOMAIN groups.items}

\* what the claim has a colour cell become
CellAsClaimed(cell, v) ==
    LET p == ParseNumber(cell)
    IN  /\ v \in 0..255
        /\ ~p.ok => v = 0
        /\ (p.ok /\ p.neg) => v = 0
        /\ (p.ok /\ ~p.neg /\ p.num > 255 * p.den) => v = 255
        /\ (p.ok /\ ~p.neg /\ p.num <= 255 * p.den) =>
              (v * p.den <= p.num /\ p.num < (v + 1) * p.den)

\* C5: a load of a CSV with every required column succeeds whatever the
\* colour cells hold, and every R, G, B of every record is an integer in
\* 0..255: 0 for an unparseable or empty cell, 255 above 255, 0 below 0,
\* the integer part otherwise.
C5_ColorsCoerced ==
    Loaded =>
        /\ ~IsNone(groups)
        /\ \A r \in LoadedRows : \A c \in {"R", "G", "B"} :
              CellAsClaimed(df.data[c][r.index], r[c])

C5_Witness ==
    /\ Loaded
    /\ \E r \in LoadedRows :
          /\ df.data["R"][r.index] = << "a", "b", "c" >> /\ r.R = 0
          /\ df.data["G"][r.index] = << "-", "5" >> /\ r.G = 0
          /\ df.data["B"][r.index] = << "3", "0", "0" >> /\ r.B = 255
    /\ \E r \in LoadedRows :
          df.data["R"][r.index] = << "1", "2", ".", "7" >> /\ r.R = 12

\* C6: after a successful load every row whose Group cell is empty is in
\* the group named "n/a", and "n/a" stands in group_names after every
\* label that reads as a number.
C6_MissingGroupIsNA ==
    Loaded =>
        \A i \in 1..df.nrows :
            Len(df.data["Group"][i]) = 0 =>
                /\ \E k \in DOMAIN groups.items :
                      /\ groups.items[k].groupName = << "n", "/", "a" >>
                      /\ \E j \in DOMAIN groups.items[k].data :
                            groups.items[k].data[j].index = i
                /\ \E k \in DOMAIN group_names.items :
                      /\ group_names.items[k] = << "n", "/", "a" >>
                      /\ \A m \in DOMAIN group_names.items :
                            LabelIsNumber(group_names.items[m]) => m < k

C6_Witness ==
    /\ Loaded
    /\ df.nrows = 3
    /\ Len(df.data["Group"][2]) = 0
    /\ df.data["Group"][1] = << "a" >>
    /\ df.data["Group"][3] = << "1", "0" >>
    /\ group_names.items = << << "1", "0" >>, << "a" >>, << "n", "/", "a" >> >>

\* C7: a Dataset delivered by a run is the Dataset of the file as it was on
\* disk at that run, never that of an earlier content.
C7_RunSeesCurrentFile ==
    (run_source # Unread /\ ~IsNone(groups)) =>
        /\ groups = load_data(run_source).groups
        /\ group_names = load_data(run_source).group_names

\* the R, G, B columns are replaced by a Hex column
HexInsteadOfRGB(f) ==
    /\ f.kind = "csv"
    /\ "Hex" \in f.columns
    /\ f.columns \cap {"R", "G", "B"} = {}
    /\ Required \ {"R", "G", "B"} \subseteq f.columns

\* C8: a CSV with Hex in place of R, G, B loads, and every marker colour is
\* the row's Hex cell.
C8_HexAccepted ==
    HexInsteadOfRGB(df) =>
        /\ ~IsNone(groups)
        /\ \A c \in DOMAIN charts : \A t \in DOMAIN charts[c].traces :
              \A j \in DOMAIN charts[c].traces[t].points :
                  charts[c].traces[t].colors[j]
                      = df.data["Hex"][charts[c].traces[t].points[j]]

\* C9: a run whose load failed puts no chart on the page.
C9_FailedLoadRendersNothing == IsNone(groups) => Len(charts) = 0

\* C10: a failed load is not remembered: after a run that met the file
\* present with every required column, groups is a Dataset, not None.
C10_FailureNotRemembered ==
    (run_source.kind = "csv" /\ Required \subseteq run_source.columns) =>
        ~IsNone(groups)

=============================================================================
